---- MODULE Spec2Model ----
(***************************************************************************)
(* Model of the Kindle clippings parser (parser.py).                       *)
(*                                                                         *)
(* Text is modelled as a sequence of tokens.  A token is a string that     *)
(* stands for an indivisible piece of text: a newline, the separator       *)
(* "==========", a literal of the metadata grammar ("- Your ", " on ",     *)
(* "Location ", ...), one decimal digit, one word, one timestamp text.     *)
(* split, strip, splitlines, join, the two regular expressions, int() and  *)
(* str() are computed on these token sequences.                            *)
(***************************************************************************)
EXTENDS Integers, Sequences, FiniteSets

VARIABLES
    pc,          \* position of the run
    content,     \* text of the input file
    clippings,   \* list returned by parse_clippings
    warnings,    \* number of logger.warning calls made by parse_clippings
    rendered,    \* text obtained by rendering the clippings back
    reparsed,    \* parse_clippings of the rendered text
    books,       \* result of group_clippings_by_book_dict
    booksObj,    \* result of group_clippings_by_book
    token,       \* a location token
    locstr,      \* str(Location.parse(token))
    exists,      \* os.path.exists(args.input_file)
    fallback,    \* the file exists under input/
    readable,    \* the file can be read and decoded
    jsonFlag,    \* args.json
    inputFile,   \* the path main opens: "given" or "fallback"
    opened,      \* output files opened for writing
    md           \* lines written to the markdown file

vars == <<pc, content, clippings, warnings, rendered, reparsed, books, booksObj,
          token, locstr, exists, fallback, readable, jsonFlag, inputFile, opened, md>>

----------------------------------------------------------------------------
(* Bounds of the model *)

MaxEntries == 3     \* entries of a generated file
MaxMainEntries == 2 \* entries of a file given to main
MaxLines == 5       \* lines of a freely generated entry
MaxDigits == 2      \* digits of each number of a location token
MaxClips == 3       \* clippings handed to the grouping functions

----------------------------------------------------------------------------
(* Sequences *)

Last(s) == s[Len(s)]

Front(s) == SubSeq(s, 1, Len(s) - 1)

RECURSIVE Flat(_)
Flat(ss) == IF ss = <<>> THEN <<>> ELSE Head(ss) \o Flat(Tail(ss))

RECURSIVE SeqsUpTo(_, _)
SeqsUpTo(S, n) ==
    IF n = 0 THEN {<<>>}
    ELSE LET P == SeqsUpTo(S, n - 1)
         IN  P \cup {Append(p, x) : p \in {q \in P : Len(q) = n - 1}, x \in S}

----------------------------------------------------------------------------
(* Tokens *)

NL == "\n"
CLIPPINGS_SEPARATOR == "=========="
SP == " "

\* str.strip() and str.splitlines() treat these as whitespace
IsSpace(t) == t \in {NL, SP}

\* Decimal digits; the last one is a non-ASCII decimal digit (ARABIC-INDIC
\* DIGIT ONE), which Python's \d and int() accept.
AsciiDigits == <<"0", "1", "2", "3", "4", "5", "6", "7", "8", "9">>
ArabicOne == "<U+0661>"
IsDigit(t) == t = ArabicOne \/ \E i \in 1..10 : AsciiDigits[i] = t
DigitVal(t) == IF t = ArabicOne THEN 1
               ELSE (CHOOSE i \in 1..10 : AsciiDigits[i] = t) - 1

\* int(s) for a string of decimal digits
RECURSIVE IntOf(_)
IntOf(ds) == IF ds = <<>> THEN 0
             ELSE IntOf(Front(ds)) * 10 + DigitVal(Last(ds))

\* str(n) for a natural number n
RECURSIVE StrOfInt(_)
StrOfInt(n) == IF n < 10 THEN <<AsciiDigits[n + 1]>>
               ELSE Append(StrOfInt(n \div 10), AsciiDigits[(n % 10) + 1])

\* \w+ : a category is one word
Words == {"Highlight", "Bookmark", "Note", "highlight"}

\* str.title() of a word
TitleCase(w) == IF w = "highlight" THEN "Highlight" ELSE w

----------------------------------------------------------------------------
(* str.strip, str.split(sep), str.splitlines, str.join *)

RECURSIVE LStrip(_)
LStrip(s) == IF s # <<>> /\ IsSpace(Head(s)) THEN LStrip(Tail(s)) ELSE s

RECURSIVE RStrip(_)
RStrip(s) == IF s # <<>> /\ IsSpace(Last(s)) THEN RStrip(Front(s)) ELSE s

Strip(s) == RStrip(LStrip(s))

\* s.split(sep): the fragments between the occurrences of sep, always one
\* more fragment than occurrences
RECURSIVE Split(_, _)
Split(s, sep) ==
    IF \A i \in 1..Len(s) : s[i] # sep THEN <<s>>
    ELSE LET k == CHOOSE i \in 1..Len(s) :
                      s[i] = sep /\ \A j \in 1..(i - 1) : s[j] # sep
         IN  <<SubSeq(s, 1, k - 1)>> \o Split(SubSeq(s, k + 1, Len(s)), sep)

\* s.splitlines(): no line for the empty string, none after a final newline
SplitLines(s) ==
    IF s = <<>> THEN <<>>
    ELSE IF Last(s) = NL THEN Split(Front(s), NL)
    ELSE Split(s, NL)

\* '\n'.join(lines)
RECURSIVE JoinLines(_)
JoinLines(ls) ==
    IF ls = <<>> THEN <<>>
    ELSE IF Len(ls) = 1 THEN ls[1]
    ELSE ls[1] \o <<NL>> \o JoinLines(Tail(ls))

Occurrences(s, t) == Cardinality({i \in 1..Len(s) : s[i] = t})

----------------------------------------------------------------------------
(* Document *)

Unknown == <<"Unknown">>

\* Document.PATTERN  ^(?P<title>.+) \((?P<authors>.+?)\)$ : the positions of
\* " (" that leave a non-empty title before and non-empty authors after,
\* the line ending in ")"
DocumentOpenings(line) ==
    {i \in 2..(Len(line) - 2) : line[i] = " (" /\ Last(line) = ")"}

\* greedy title: the last opening
DocumentOpeningGreedy(line) ==
    CHOOSE i \in DocumentOpenings(line) : \A j \in DocumentOpenings(line) : j <= i

DocumentParse(line) ==
    IF DocumentOpenings(line) # {}
    THEN LET k == DocumentOpeningGreedy(line)
         IN  [title |-> SubSeq(line, 1, k - 1),
              authors |-> SubSeq(line, k + 1, Len(line) - 1)]
    ELSE [title |-> Strip(line), authors |-> Unknown]

DocumentStr(d) == d.title \o <<" (">> \o d.authors \o <<")">>

----------------------------------------------------------------------------
(* Location *)

LocationParseSwapped(string) ==
    LET ranges == Split(string, "-")
        a == IntOf(ranges[1])
        b == IntOf(IF Len(ranges) = 1 THEN ranges[1] ELSE ranges[2])
    IN  [begin |-> IF a <= b THEN a ELSE b, end |-> IF a <= b THEN b ELSE a]

LocationParse(string) ==
    LET ranges == Split(string, "-")
    IN  IF Len(ranges) = 1
        THEN [begin |-> IntOf(ranges[1]), end |-> IntOf(ranges[1])]
        ELSE [begin |-> IntOf(ranges[1]), end |-> IntOf(ranges[2])]

LocationStrAlwaysRange(l) == StrOfInt(l.begin) \o <<"-">> \o StrOfInt(l.end)

LocationStr(l) ==
    IF l.begin = l.end THEN StrOfInt(l.begin)
    ELSE StrOfInt(l.begin) \o <<"-">> \o StrOfInt(l.end)

----------------------------------------------------------------------------
(* Metadata *)

NoPage == -1      \* page = None

\* the position after the longest run of digits that starts at i  (\d+)
RECURSIVE DigitsEnd(_, _)
DigitsEnd(line, i) ==
    IF i <= Len(line) /\ IsDigit(line[i]) THEN DigitsEnd(line, i + 1) ELSE i

Tok(line, i) == IF i \in 1..Len(line) THEN line[i] ELSE ""

\* Metadata.PATTERN, matched from the start of the line to its end.
\* page, loc, ts: the captured groups (page = <<>> when the clause is absent)
MetadataMatch(line) ==
    LET hasPage == Tok(line, 4) \in {"Page ", "page "}
        pageEnd == DigitsEnd(line, 5)
        pageOk  == hasPage /\ pageEnd > 5 /\ Tok(line, pageEnd) = " | "
        l0      == IF pageOk THEN pageEnd + 1 ELSE 4
        n0      == l0 + 1
        n1      == DigitsEnd(line, n0)
        range   == Tok(line, n1) = "-" /\ DigitsEnd(line, n1 + 1) > n1 + 1
        locEnd  == IF range THEN DigitsEnd(line, n1 + 1) ELSE n1
        ok      == /\ Tok(line, 1) = "- Your "
                   /\ Tok(line, 2) \in Words
                   /\ Tok(line, 3) \in {" on ", " at "}
                   /\ Tok(line, l0) \in {"Location ", "location "}
                   /\ n1 > n0
                   /\ Tok(line, locEnd) = " | Added on "
                   /\ Len(line) > locEnd
    IN  IF ok
        THEN [ok |-> TRUE,
              category |-> line[2],
              page |-> IF pageOk THEN SubSeq(line, 5, pageEnd - 1) ELSE <<>>,
              location |-> SubSeq(line, n0, locEnd - 1),
              timestamp |-> SubSeq(line, locEnd + 1, Len(line))]
        ELSE [ok |-> FALSE]

\* dateutil.parser.parse on the timestamp texts of the model: the reference
\* format with and without the leading zero of the hour; any other text raises
TimestampTexts == {"Friday, May 13, 2016 11:23:26 PM",
                   "Saturday, May 14, 2016 01:05:00 PM",
                   "Saturday, May 14, 2016 1:05:00 PM"}

DateutilParse(text) ==
    IF Len(text) = 1 /\ text[1] \in TimestampTexts
    THEN [ok |-> TRUE,
          value |-> IF text[1] = "Friday, May 13, 2016 11:23:26 PM"
                    THEN "2016-05-13T23:23:26" ELSE "2016-05-14T13:05:00"]
    ELSE [ok |-> FALSE, value |-> ""]

\* timestamp.strftime(DATETIME_FORMAT), then HOUR_PATTERN removes the leading zero
TimestampStr(dt) ==
    IF dt = "2016-05-13T23:23:26" THEN "Friday, May 13, 2016 11:23:26 PM"
    ELSE "Saturday, May 14, 2016 1:05:00 PM"

\* Metadata.parse: [ok |-> FALSE] when it raises
MetadataParse(line) ==
    LET m == MetadataMatch(line)
    IN  IF ~m.ok THEN [ok |-> FALSE]
        ELSE LET ts == DateutilParse(m.timestamp)
             IN  IF ~ts.ok THEN [ok |-> FALSE]
                 ELSE [ok |-> TRUE,
                       value |-> [category |-> m.category,
                                  location |-> LocationParse(m.location),
                                  timestamp |-> ts.value,
                                  page |-> IF m.page = <<>> THEN NoPage
                                           ELSE IntOf(m.page)]]

MetadataStr(m) ==
    <<"- Your ", TitleCase(m.category), " on ">>
    \o (IF m.page = NoPage THEN <<>> ELSE <<"page ">> \o StrOfInt(m.page) \o <<" | ">>)
    \o <<"Location ">> \o LocationStr(m.location)
    \o <<" | Added on ", TimestampStr(m.timestamp)>>

----------------------------------------------------------------------------
(* Clipping *)

ClippingStr(c) ==
    JoinLines(<<DocumentStr(c.document), MetadataStr(c.metadata), c.content>>)

----------------------------------------------------------------------------
(* parse_clippings *)

\* read().split(CLIPPINGS_SEPARATOR) without dropping the last fragment
EntriesKeepLast(text) == Split(text, CLIPPINGS_SEPARATOR)

\* read().split(CLIPPINGS_SEPARATOR)[:-1]
Entries(text) == Front(Split(text, CLIPPINGS_SEPARATOR))

EntryLines(entry) == SplitLines(Strip(entry))

\* content from line 2 on, not from line 3 on
EntryContentFromLine2(lines) == Strip(JoinLines(SubSeq(lines, 3, Len(lines))))

\* '\n'.join(lines[3:]).strip()
EntryContent(lines) == Strip(JoinLines(SubSeq(lines, 4, Len(lines))))

\* the except clause gives up on the entries parsed so far
ExceptHandlerReset(acc) ==
    [acc EXCEPT !.clippings = <<>>, !.warnings = @ + 1]

\* except Exception: logger.warning(...); continue
ExceptHandler(acc) == [acc EXCEPT !.warnings = @ + 1]

\* one iteration of the loop over the entries
EntryStep(acc, entry) ==
    LET lines == EntryLines(entry)
    IN  IF Len(lines) < 3 THEN acc
        ELSE LET document == DocumentParse(lines[1])
                 metadata == MetadataParse(lines[2])
             IN  IF ~metadata.ok THEN ExceptHandler(acc)
                 ELSE [acc EXCEPT !.clippings =
                           Append(@, [document |-> document,
                                      metadata |-> metadata.value,
                                      content |-> EntryContent(lines)])]

RECURSIVE EntryLoop(_)
EntryLoop(entries) ==
    IF entries = <<>> THEN [clippings |-> <<>>, warnings |-> 0]
    ELSE EntryStep(EntryLoop(Front(entries)), Last(entries))

ParseClippings(text) == EntryLoop(Entries(text))

----------------------------------------------------------------------------
(* as_dicts, group_clippings_by_book, group_clippings_by_book_dict *)

DocumentToDict(d) == [title |-> d.title, authors |-> d.authors]

LocationToDict(l) == [begin |-> l.begin, end |-> l.end]

MetadataToDict(m) ==
    [category |-> m.category, location |-> LocationToDict(m.location),
     timestamp |-> m.timestamp, page |-> m.page]

ClippingToDict(c) ==
    [document |-> DocumentToDict(c.document),
     metadata |-> MetadataToDict(c.metadata),
     content |-> c.content]

AsDicts(cs) == [i \in 1..Len(cs) |-> ClippingToDict(cs[i])]

HasTitle(bks, title) == \E i \in 1..Len(bks) : bks[i].title = title

\* the author of the group follows the latest clipping of the title
AddToBooksLastWins(bks, c) ==
    LET title == c.document.title
        withGroup == IF HasTitle(bks, title) THEN bks
                     ELSE Append(bks, [title |-> title,
                                       author |-> c.document.authors,
                                       clippings |-> <<>>])
    IN  [i \in 1..Len(withGroup) |->
            IF withGroup[i].title = title
            THEN [withGroup[i] EXCEPT !.clippings = Append(@, c),
                                      !.author = c.document.authors]
            ELSE withGroup[i]]

\* the body of the first loop: books is a dict, kept here in insertion order
AddToBooks(bks, c) ==
    LET title == c.document.title
        withGroup == IF HasTitle(bks, title) THEN bks
                     ELSE Append(bks, [title |-> title,
                                       author |-> c.document.authors,
                                       clippings |-> <<>>])
    IN  [i \in 1..Len(withGroup) |->
            IF withGroup[i].title = title
            THEN [withGroup[i] EXCEPT !.clippings = Append(@, c)]
            ELSE withGroup[i]]

RECURSIVE CollectBooks(_)
CollectBooks(cs) ==
    IF cs = <<>> THEN <<>> ELSE AddToBooks(CollectBooks(Front(cs)), Last(cs))

\* the sort key of both functions
SortKey(c) == c.metadata.location.begin

\* an insertion that puts c before the elements of equal key
InsertBeforeEqual(sorted, c) ==
    LET k == Cardinality({i \in 1..Len(sorted) : SortKey(sorted[i]) < SortKey(c)})
    IN  SubSeq(sorted, 1, k) \o <<c>> \o SubSeq(sorted, k + 1, Len(sorted))

\* list.sort(key=...) is stable: c goes after the elements of key <= its own
InsertStable(sorted, c) ==
    LET k == Cardinality({i \in 1..Len(sorted) : SortKey(sorted[i]) <= SortKey(c)})
    IN  SubSeq(sorted, 1, k) \o <<c>> \o SubSeq(sorted, k + 1, Len(sorted))

RECURSIVE SortByBegin(_)
SortByBegin(cs) ==
    IF cs = <<>> THEN <<>> ELSE InsertStable(SortByBegin(Front(cs)), Last(cs))

SortBooks(bks) ==
    [i \in 1..Len(bks) |-> [bks[i] EXCEPT !.clippings = SortByBegin(@)]]

GroupClippingsByBook(cs) == SortBooks(CollectBooks(cs))

GroupClippingsByBookDict(ds) == SortBooks(CollectBooks(ds))

----------------------------------------------------------------------------
(* generate_markdown_output: the strings written, one per f.write *)

OfCategory(cs, cat) == SelectSeq(cs, LAMBDA c : c.metadata.category = cat)

LocationLine(c) ==
    <<"   - Location: ">> \o StrOfInt(c.metadata.location.begin) \o <<"-">>
    \o StrOfInt(c.metadata.location.end) \o <<NL>>

\* if page: ... (None and 0 are false)
PageLines(c) ==
    IF c.metadata.page = NoPage \/ c.metadata.page = 0 THEN <<>>
    ELSE << <<"   - Page: ">> \o StrOfInt(c.metadata.page) \o <<NL>> >>

ItemLines(c, i, bookmark) ==
    << StrOfInt(i) \o <<". ">> \o (IF bookmark THEN <<"Bookmark">> ELSE c.content)
       \o <<NL>>,
       LocationLine(c) >>
    \o PageLines(c) \o << <<NL>> >>

Section(cs, name, bookmark) ==
    IF cs = <<>> THEN <<>>
    ELSE << <<"### ", name, " (">> \o StrOfInt(Len(cs)) \o <<")", NL, NL>> >>
         \o Flat([i \in 1..Len(cs) |-> ItemLines(cs[i], i, bookmark)])

BookLines(b) ==
    << <<"## ">> \o b.title \o <<NL>> >>
    \o (IF b.author # <<>> /\ b.author # Unknown
        THEN << <<"**Author:** ">> \o b.author \o <<NL, NL>> >> ELSE <<>>)
    \o Section(OfCategory(b.clippings, "Highlight"), "Highlights", FALSE)
    \o Section(OfCategory(b.clippings, "Note"), "Notes", FALSE)
    \o Section(OfCategory(b.clippings, "Bookmark"), "Bookmarks", TRUE)
    \o << <<"---", NL, NL>> >>

Markdown(bks) ==
    << <<"# Kindle Clippings", NL, NL>> >>
    \o Flat([i \in 1..Len(bks) |-> BookLines(bks[i])])

----------------------------------------------------------------------------
(* Input files *)

TS1 == "Friday, May 13, 2016 11:23:26 PM"
TS2 == "Saturday, May 14, 2016 01:05:00 PM"

DocOneA == <<"Book One", " (", "Author A", ")">>
DocOneB == <<"Book One", " (", "Author B", ")">>
DocPlain == <<"Some Book Title">>

MetaLine(category, page, location, ts) ==
    <<"- Your ", category, " on ">> \o page \o <<"Location ">> \o location
    \o <<" | Added on ", ts>>

EHighlight == <<DocOneA, MetaLine("Highlight", <<>>, <<"1", "0", "-", "1", "2">>, TS1),
                <<>>, <<"Some highlighted text.">> >>
ENote      == <<DocOneB, MetaLine("Note", <<"page ", "3", " | ">>, <<"7">>, TS2),
                <<>>, <<"A note.">>, <<"Its second line.">> >>
EBookmark  == <<DocOneA, MetaLine("Bookmark", <<>>, <<"5">>, TS1), <<>>, <<>> >>
ENoAdded   == <<DocPlain, <<"- Your ", "Highlight", " on ", "Location ", "3">>,
                <<>>, <<"Text of an entry without timestamp.">> >>
EGarbage   == <<DocPlain, MetaLine("Highlight", <<>>, <<"4">>, "garbage"),
                <<>>, <<"Text of an entry with a garbage timestamp.">> >>
EShort     == << <<"A stray line.">> >>
EPlain     == <<DocPlain, MetaLine("Highlight", <<>>, <<"2">>, TS2),
                <<>>, <<"Text of a book without author.">> >>

EntryShapes == {EHighlight, ENote, EBookmark, ENoAdded, EGarbage, EShort, EPlain}

\* the text of an entry: its lines, each ended by a newline
EntryText(e) == JoinLines(e) \o <<NL>>

\* what follows the last separator: nothing, or a well-formed entry
Trailings == {<<>>, EntryText(EPlain)}

FileOf(es, trailing) ==
    Flat([i \in 1..Len(es) |-> EntryText(es[i]) \o <<CLIPPINGS_SEPARATOR, NL>>])
    \o trailing

Files(n) == {FileOf(es, t) : es \in SeqsUpTo(EntryShapes, n), t \in Trailings}

\* lines of a freely composed entry
EntryLineAlphabet ==
    {<<>>, <<SP>>, DocOneA, <<"Some highlighted text.">>,
     MetaLine("Highlight", <<>>, <<"7">>, TS1),
     MetaLine("Highlight", <<>>, <<"7">>, "garbage")}

\* location tokens \d+(-\d+)?
LocDigits == {"0", "1", "2", ArabicOne}
LocNumbers == SeqsUpTo(LocDigits, MaxDigits) \ {<<>>}
LocTokens == LocNumbers \cup {n \o <<"-">> \o m : n \in LocNumbers, m \in LocNumbers}

\* clippings handed to the grouping functions
SampleClippings ==
    {[document |-> [title |-> <<t>>, authors |-> <<a>>],
      metadata |-> [category |-> "Highlight",
                    location |-> [begin |-> b, end |-> b + 1],
                    timestamp |-> "2016-05-13T23:23:26",
                    page |-> NoPage],
      content |-> <<x>>] :
        t \in {"Book One", "Book Two"}, a \in {"Author A", "Author B"},
        b \in 1..2, x \in {"first text", "second text"}}

----------------------------------------------------------------------------
(* Initial states *)

InitRun ==
    /\ warnings = 0
    /\ rendered = <<>>
    /\ reparsed = <<>>
    /\ books = <<>>
    /\ booksObj = <<>>
    /\ locstr = <<>>
    /\ inputFile = "given"
    /\ opened = {}
    /\ md = <<>>

\* a run of main
Init ==
    /\ pc = "start"
    /\ content \in Files(MaxMainEntries)
    /\ clippings = <<>>
    /\ token = <<>>
    /\ exists \in BOOLEAN
    /\ fallback \in BOOLEAN
    /\ readable \in BOOLEAN
    /\ jsonFlag \in BOOLEAN
    /\ InitRun

InitCall ==
    /\ exists = TRUE
    /\ fallback = FALSE
    /\ readable = TRUE
    /\ jsonFlag = FALSE
    /\ InitRun

\* a call of parse_clippings on a file of several entries
InitParse ==
    /\ pc = "call"
    /\ content \in Files(MaxEntries)
    /\ clippings = <<>>
    /\ token = <<>>
    /\ InitCall

\* a call of parse_clippings on a file of one freely composed entry
InitEntry ==
    /\ pc = "call"
    /\ \E lines \in SeqsUpTo(EntryLineAlphabet, MaxLines) :
           content = JoinLines(lines) \o <<NL, CLIPPINGS_SEPARATOR, NL>>
    /\ clippings = <<>>
    /\ token = <<>>
    /\ InitCall

\* a location token, alone and in the metadata line of a one-entry file
InitLoc ==
    /\ pc = "call"
    /\ token \in LocTokens
    /\ content = FileOf(<< <<DocOneA, MetaLine("Highlight", <<>>, token, TS1),
                             <<>>, <<"Some highlighted text.">> >> >>, <<>>)
    /\ clippings = <<>>
    /\ InitCall

\* a list of clippings handed to the grouping functions
InitGroup ==
    /\ pc = "parsed"
    /\ content = <<>>
    /\ clippings \in SeqsUpTo(SampleClippings, MaxClips)
    /\ token = <<>>
    /\ InitCall

----------------------------------------------------------------------------
(* parse_clippings, called on its own *)

Parse ==
    /\ pc = "call"
    /\ LET r == ParseClippings(content)
       IN  /\ clippings' = r.clippings
           /\ warnings' = r.warnings
    /\ pc' = "parsed"
    /\ UNCHANGED <<content, rendered, reparsed, books, booksObj, token, locstr,
                   exists, fallback, readable, jsonFlag, inputFile, opened, md>>

\* each clipping rendered with str(), followed by the separator line
RenderAll(cs) ==
    Flat([i \in 1..Len(cs) |-> ClippingStr(cs[i]) \o <<NL, CLIPPINGS_SEPARATOR, NL>>])

Render ==
    /\ pc = "parsed"
    /\ rendered' = RenderAll(clippings)
    /\ pc' = "rendered"
    /\ UNCHANGED <<content, clippings, warnings, reparsed, books, booksObj, token,
                   locstr, exists, fallback, readable, jsonFlag, inputFile, opened, md>>

Reparse ==
    /\ pc = "rendered"
    /\ reparsed' = ParseClippings(rendered).clippings
    /\ pc' = "reparsed"
    /\ UNCHANGED <<content, clippings, warnings, rendered, books, booksObj, token,
                   locstr, exists, fallback, readable, jsonFlag, inputFile, opened, md>>

\* str(Location.parse(token))
LocationRoundTrip ==
    /\ pc \in {"call", "parsed"}
    /\ locstr = <<>>
    /\ locstr' = LocationStr(LocationParse(token))
    /\ UNCHANGED <<pc, content, clippings, warnings, rendered, reparsed, books,
                   booksObj, token, exists, fallback, readable, jsonFlag, inputFile,
                   opened, md>>

\* group_clippings_by_book on the objects
GroupObjects ==
    /\ pc = "parsed"
    /\ booksObj' = GroupClippingsByBook(clippings)
    /\ pc' = "groupedObjects"
    /\ UNCHANGED <<content, clippings, warnings, rendered, reparsed, books, token,
                   locstr, exists, fallback, readable, jsonFlag, inputFile, opened, md>>

\* group_clippings_by_book_dict on as_dicts of the objects
GroupDicts ==
    /\ pc = "groupedObjects"
    /\ books' = GroupClippingsByBookDict(AsDicts(clippings))
    /\ pc' = "grouped"
    /\ UNCHANGED <<content, clippings, warnings, rendered, reparsed, booksObj, token,
                   locstr, exists, fallback, readable, jsonFlag, inputFile, opened, md>>

----------------------------------------------------------------------------
(* main *)

\* if not os.path.exists(input_file): input_file = os.path.join("input", ...)
ResolveInput ==
    /\ pc = "start"
    /\ inputFile' = IF exists THEN "given" ELSE "fallback"
    /\ pc' = "open"
    /\ UNCHANGED <<content, clippings, warnings, rendered, reparsed, books, booksObj,
                   token, locstr, exists, fallback, readable, jsonFlag, opened, md>>

InputPresent == IF inputFile = "given" THEN exists ELSE fallback

\* except FileNotFoundError: return
FileNotFound ==
    /\ pc = "open"
    /\ ~InputPresent
    /\ pc' = "done"
    /\ UNCHANGED <<content, clippings, warnings, rendered, reparsed, books, booksObj,
                   token, locstr, exists, fallback, readable, jsonFlag, inputFile,
                   opened, md>>

\* except Exception: return
ReadError ==
    /\ pc = "open"
    /\ InputPresent
    /\ ~readable
    /\ pc' = "done"
    /\ UNCHANGED <<content, clippings, warnings, rendered, reparsed, books, booksObj,
                   token, locstr, exists, fallback, readable, jsonFlag, inputFile,
                   opened, md>>

\* with open(input_file) as clippings_file: clippings = parse_clippings(...)
ReadAndParse ==
    /\ pc = "open"
    /\ InputPresent
    /\ readable
    /\ LET r == ParseClippings(content)
       IN  /\ clippings' = r.clippings
           /\ warnings' = r.warnings
    /\ pc' = "check"
    /\ UNCHANGED <<content, rendered, reparsed, books, booksObj, token, locstr,
                   exists, fallback, readable, jsonFlag, inputFile, opened, md>>

\* if not clippings: return
NoClippings ==
    /\ pc = "check"
    /\ clippings = <<>>
    /\ pc' = "done"
    /\ UNCHANGED <<content, clippings, warnings, rendered, reparsed, books, booksObj,
                   token, locstr, exists, fallback, readable, jsonFlag, inputFile,
                   opened, md>>

\* the grouping step without the return on an empty list
GroupAlways ==
    /\ pc = "check"
    /\ books' = GroupClippingsByBookDict(AsDicts(clippings))
    /\ pc' = "render"
    /\ UNCHANGED <<content, clippings, warnings, rendered, reparsed, booksObj, token,
                   locstr, exists, fallback, readable, jsonFlag, inputFile, opened, md>>

\* clip_dicts = as_dicts(clippings); books = group_clippings_by_book_dict(clip_dicts)
Group ==
    /\ pc = "check"
    /\ clippings # <<>>
    /\ books' = GroupClippingsByBookDict(AsDicts(clippings))
    /\ pc' = "render"
    /\ UNCHANGED <<content, clippings, warnings, rendered, reparsed, booksObj, token,
                   locstr, exists, fallback, readable, jsonFlag, inputFile, opened, md>>

\* generate_markdown_output(books, args.output)
WriteMarkdown ==
    /\ pc = "render"
    /\ opened' = opened \cup {"markdown"}
    /\ md' = Markdown(books)
    /\ pc' = "json"
    /\ UNCHANGED <<content, clippings, warnings, rendered, reparsed, books, booksObj,
                   token, locstr, exists, fallback, readable, jsonFlag, inputFile>>

\* if args.json: with open(json_output, 'w') ...
WriteJson ==
    /\ pc = "json"
    /\ jsonFlag
    /\ opened' = opened \cup {"json"}
    /\ pc' = "done"
    /\ UNCHANGED <<content, clippings, warnings, rendered, reparsed, books, booksObj,
                   token, locstr, exists, fallback, readable, jsonFlag, inputFile, md>>

Finish ==
    /\ pc = "json"
    /\ ~jsonFlag
    /\ pc' = "done"
    /\ UNCHANGED <<content, clippings, warnings, rendered, reparsed, books, booksObj,
                   token, locstr, exists, fallback, readable, jsonFlag, inputFile,
                   opened, md>>

----------------------------------------------------------------------------
(* Specifications *)

Next ==
    \/ ResolveInput
    \/ FileNotFound
    \/ ReadError
    \/ ReadAndParse
    \/ NoClippings
    \/ Group
    \/ WriteMarkdown
    \/ WriteJson
    \/ Finish

Spec == Init /\ [][Next]_vars

NextParse == Parse \/ Render \/ Reparse

SpecParse == InitParse /\ [][NextParse]_vars

NextEntry == Parse

SpecEntry == InitEntry /\ [][NextEntry]_vars

NextLoc == Parse \/ LocationRoundTrip

SpecLoc == InitLoc /\ [][NextLoc]_vars

NextGroup == GroupObjects \/ GroupDicts

SpecGroup == InitGroup /\ [][NextGroup]_vars

----------------------------------------------------------------------------
(* Properties *)

Returned == pc \in {"parsed", "rendered", "reparsed"}

Fragments(text) == Split(text, CLIPPINGS_SEPARATOR)

\* fragments joined by the separator
RECURSIVE JoinSep(_)
JoinSep(fs) ==
    IF Len(fs) = 1 THEN fs[1]
    ELSE fs[1] \o <<CLIPPINGS_SEPARATOR>> \o JoinSep(Tail(fs))

\* the text without its i-th entry and the separator that ends it
WithoutEntry(text, i) ==
    LET fs == Fragments(text)
    IN  JoinSep(SubSeq(fs, 1, i - 1) \o SubSeq(fs, i + 1, Len(fs)))

\* the result of parse_clippings on a file that holds one entry
Alone(entry) == ParseClippings(entry \o <<CLIPPINGS_SEPARATOR>>)

EntryFails(entry) == Alone(entry).warnings = 1

FileEntries == Front(Fragments(content))

\* C1: error isolation. The list returned is the concatenation, in file
\* order, of what each entry yields alone; an entry whose parsing raises
\* yields nothing, and the result is the same as for the file without it;
\* one warning is logged for each such entry.
C1_ErrorIsolation ==
    Returned =>
        /\ clippings =
               Flat([i \in 1..Len(FileEntries) |-> Alone(FileEntries[i]).clippings])
        /\ \A i \in 1..Len(FileEntries) :
               EntryFails(FileEntries[i]) =>
                   /\ Alone(FileEntries[i]).clippings = <<>>
                   /\ ParseClippings(WithoutEntry(content, i)).clippings = clippings
        /\ warnings =
               Cardinality({i \in 1..Len(FileEntries) : EntryFails(FileEntries[i])})

\* a failing entry between two entries that parse, both returned
C1_Witness ==
    /\ pc = "parsed"
    /\ Len(FileEntries) = 3
    /\ EntryFails(FileEntries[2])
    /\ Alone(FileEntries[1]).clippings # <<>>
    /\ Alone(FileEntries[3]).clippings # <<>>
    /\ clippings = Alone(FileEntries[1]).clippings \o Alone(FileEntries[3]).clippings

\* the text up to and including its last separator
UpToLastSeparator(text) ==
    IF Occurrences(text, CLIPPINGS_SEPARATOR) = 0 THEN <<>>
    ELSE SubSeq(text, 1, CHOOSE i \in 1..Len(text) :
                             /\ text[i] = CLIPPINGS_SEPARATOR
                             /\ \A j \in (i + 1)..Len(text) :
                                    text[j] # CLIPPINGS_SEPARATOR)

\* C5: the last fragment is discarded. The result is the result for the text
\* cut after its last separator, a text without separator yields nothing, and
\* there are never more clippings than separators.
C5_LastFragmentDiscarded ==
    Returned =>
        /\ clippings = ParseClippings(UpToLastSeparator(content)).clippings
        /\ Occurrences(content, CLIPPINGS_SEPARATOR) = 0 => clippings = <<>>
        /\ Len(clippings) <= Occurrences(content, CLIPPINGS_SEPARATOR)

\* a well-formed entry after the last separator, and clippings before it
C5_Witness ==
    /\ pc = "parsed"
    /\ Alone(Last(Fragments(content))).clippings # <<>>
    /\ clippings # <<>>
    /\ Len(clippings) = Occurrences(content, CLIPPINGS_SEPARATOR)

\* C6: rendering the clippings with str(), each followed by the separator
\* line, and parsing the result gives the same clippings in the same order.
C6_RenderReparseRoundTrip == pc = "reparsed" => reparsed = clippings

\* the file holds an entry that is a document line, a Bookmark metadata line
\* and blank lines only
BookmarkEntryIn(text) ==
    \E i \in 1..(Len(Fragments(text)) - 1) :
        Strip(Fragments(text)[i]) = Strip(EntryText(EBookmark))

InputRead == (exists \/ fallback) /\ readable

\* C9: a bookmark entry without content becomes a Clipping of category
\* Bookmark with empty content and is listed under Bookmarks in the markdown.
C9_EmptyBookmarkListed ==
    (pc = "done" /\ InputRead /\ BookmarkEntryIn(content)) =>
        /\ \E i \in 1..Len(clippings) :
               /\ clippings[i].metadata.category = "Bookmark"
               /\ clippings[i].content = <<>>
        /\ \E k \in 1..Len(md) : SubSeq(md[k], 1, 2) = <<"### ", "Bookmarks">>

\* C2: an output file is opened only after the input was read without error
\* and parse_clippings returned at least one Clipping; otherwise the run ends
\* with nothing written.
C2_NoOutputWithoutClippings ==
    /\ opened # {} => (InputRead /\ ParseClippings(content).clippings # <<>>)
    /\ (pc = "done" /\ ~(InputRead /\ ParseClippings(content).clippings # <<>>))
           => (opened = {} /\ md = <<>>)

\* a readable file whose entries all fail: the run ended without output
C2_Witness ==
    /\ pc = "done"
    /\ InputRead
    /\ warnings > 0
    /\ clippings = <<>>
    /\ opened = {}

----------------------------------------------------------------------------
(* Properties of the grouping functions *)

Grouped == pc \in {"groupedObjects", "grouped"}

TitleOf(c) == c.document.title

FirstWithTitle(cs, title) ==
    CHOOSE i \in 1..Len(cs) :
        TitleOf(cs[i]) = title /\ \A j \in 1..(i - 1) : TitleOf(cs[j]) # title

FirstWins(bks, cs) ==
    /\ \A i \in 1..Len(cs) : \E g \in 1..Len(bks) : bks[g].title = TitleOf(cs[i])
    /\ \A g \in 1..Len(bks) :
           /\ \E i \in 1..Len(cs) : TitleOf(cs[i]) = bks[g].title
           /\ \A h \in 1..Len(bks) : bks[h].title = bks[g].title => h = g
           /\ bks[g].author = cs[FirstWithTitle(cs, bks[g].title)].document.authors

\* C3: the author of a group is the authors string of the first clipping of
\* the sequence with that title, in both grouping functions.
C3_FirstAuthorWins ==
    /\ Grouped => FirstWins(booksObj, clippings)
    /\ pc = "grouped" => FirstWins(books, clippings)

\* two clippings of one title with different authors were grouped
C3_Witness ==
    /\ pc = "grouped"
    /\ \E i, j \in 1..Len(clippings) :
           /\ i < j
           /\ TitleOf(clippings[i]) = TitleOf(clippings[j])
           /\ clippings[i].document.authors # clippings[j].document.authors

BeginOf(c) == c.metadata.location.begin

\* the position of clipping i in its group: after the clippings of the title
\* with a smaller begin and after those with the same begin that precede it
PlaceInGroup(cs, i) ==
    Cardinality({j \in 1..Len(cs) :
                    /\ TitleOf(cs[j]) = TitleOf(cs[i])
                    /\ \/ BeginOf(cs[j]) < BeginOf(cs[i])
                       \/ BeginOf(cs[j]) = BeginOf(cs[i]) /\ j <= i})

SortedStable(bks, cs) ==
    \A g \in 1..Len(bks) :
        /\ Len(bks[g].clippings) =
               Cardinality({i \in 1..Len(cs) : TitleOf(cs[i]) = bks[g].title})
        /\ \A i \in 1..Len(cs) :
               TitleOf(cs[i]) = bks[g].title =>
                   bks[g].clippings[PlaceInGroup(cs, i)] = cs[i]

\* C4: a group holds exactly the clippings of its title, by ascending
\* location.begin, clippings of equal begin in their input order.
C4_SortedByBeginStable ==
    /\ Grouped => SortedStable(booksObj, clippings)
    /\ pc = "grouped" => SortedStable(books, clippings)

\* three clippings of one title: the first has to move behind two different
\* clippings of equal begin
C4_Witness ==
    /\ pc = "grouped"
    /\ \E i, j, k \in 1..Len(clippings) :
           /\ i < j /\ j < k
           /\ TitleOf(clippings[i]) = TitleOf(clippings[j])
           /\ TitleOf(clippings[j]) = TitleOf(clippings[k])
           /\ BeginOf(clippings[i]) > BeginOf(clippings[j])
           /\ BeginOf(clippings[j]) = BeginOf(clippings[k])
           /\ clippings[j] # clippings[k]

----------------------------------------------------------------------------
(* Properties of locations *)

TokenNumbers == Split(token, "-")

TokenN == TokenNumbers[1]

TokenM == IF Len(TokenNumbers) = 1 THEN TokenNumbers[1] ELSE TokenNumbers[2]

\* the token itself, or the bare N for a token N-M with N equal to M
SameToken == IF Len(TokenNumbers) = 2 /\ TokenN = TokenM THEN TokenN ELSE token

\* C7: str(Location.parse(token)) reproduces every token N-M exactly, or the
\* bare N when N equals M, and every bare token N.
C7_LocationRoundTrip == locstr # <<>> => locstr = SameToken

\* a decimal numeral as str() writes it: ASCII digits, no leading zero
Canonical(ds) ==
    /\ \A i \in 1..Len(ds) : ds[i] # ArabicOne
    /\ Len(ds) > 1 => ds[1] # "0"

\* C7 amended: the round trip reproduces the token when N and M are written
\* in ASCII digits without leading zeros.
C7_CanonicalRoundTrip ==
    (locstr # <<>> /\ Canonical(TokenN) /\ Canonical(TokenM)) => locstr = SameToken

\* a range of two different two-digit numbers came back
C7_Witness ==
    /\ locstr # <<>>
    /\ Len(TokenNumbers) = 2
    /\ Len(TokenN) = 2 /\ Len(TokenM) = 2
    /\ Canonical(TokenN) /\ Canonical(TokenM)
    /\ TokenN # TokenM

\* C8: every Location of a returned Clipping has begin <= end, and begin = end
\* for a single-point location.
C8_BeginAtMostEnd ==
    pc = "parsed" =>
        \A i \in 1..Len(clippings) :
            /\ clippings[i].metadata.location.begin <= clippings[i].metadata.location.end
            /\ Len(TokenNumbers) = 1 =>
                   clippings[i].metadata.location.begin
                       = clippings[i].metadata.location.end

RECURSIVE Pow10(_)
Pow10(n) == IF n = 0 THEN 1 ELSE 10 * Pow10(n - 1)

RECURSIVE NumberValue(_)
NumberValue(ds) ==
    IF ds = <<>> THEN 0
    ELSE DigitVal(Head(ds)) * Pow10(Len(ds) - 1) + NumberValue(Tail(ds))

\* C8 amended: the Location holds the numbers as written, begin the value of
\* N and end the value of M (of N for a bare token), so begin <= end exactly
\* when N <= M.
C8_LocationAsWritten ==
    pc = "parsed" =>
        /\ Len(clippings) = 1
        /\ clippings[1].metadata.location.begin = NumberValue(TokenN)
        /\ clippings[1].metadata.location.end = NumberValue(TokenM)
        /\ Len(TokenNumbers) = 1 =>
               clippings[1].metadata.location.begin = clippings[1].metadata.location.end

\* a descending range was parsed and kept
C8_Witness ==
    /\ pc = "parsed"
    /\ Len(clippings) = 1
    /\ clippings[1].metadata.location.begin > clippings[1].metadata.location.end

----------------------------------------------------------------------------
(* Properties of the assembly of one entry *)

\* the lines of the entry of the file, trimmed
TheLines == EntryLines(FileEntries[1])

IsBlank(line) == Strip(line) = <<>>

ContentLines(c) == SplitLines(c.content)

Assembled(from) ==
    /\ Len(TheLines) < 3 => (clippings = <<>> /\ warnings = 0)
    /\ (Len(TheLines) >= 3 /\ MetadataParse(TheLines[2]).ok) =>
           /\ Len(clippings) = 1
           /\ warnings = 0
           /\ clippings[1].document = DocumentParse(TheLines[1])
           /\ clippings[1].metadata = MetadataParse(TheLines[2]).value
           /\ clippings[1].content =
                  Strip(JoinLines(SubSeq(TheLines, 4, Len(TheLines))))
           /\ \A k \in from..Len(TheLines) :
                  ~IsBlank(TheLines[k]) =>
                      \E n \in 1..Len(ContentLines(clippings[1])) :
                          Strip(ContentLines(clippings[1])[n]) = Strip(TheLines[k])

\* C10: an entry of fewer than 3 lines yields nothing and no warning; an entry
\* of at least 3 lines whose lines 0 and 1 parse yields one Clipping, its line
\* 2 is blank, its content is lines 3 onward, and no non-blank line after the
\* metadata line is lost.
C10_EntryAssembly ==
    pc = "parsed" =>
        /\ Assembled(3)
        /\ (Len(TheLines) >= 3 /\ MetadataParse(TheLines[2]).ok) => IsBlank(TheLines[3])

\* C10 amended: line 2 is discarded whatever it holds; the content is lines 3
\* onward and no non-blank line from line 3 on is lost.
C10_EntryAssemblyFromLine3 == pc = "parsed" => Assembled(4)

\* an entry of five lines with text on line 2 gave a Clipping
C10_Witness ==
    /\ pc = "parsed"
    /\ Len(TheLines) = 5
    /\ ~IsBlank(TheLines[3])
    /\ Len(clippings) = 1
    /\ Len(ContentLines(clippings[1])) = 2

====
